---- MODULE Spec2Model ----
(***************************************************************************)
(* A model of FlipperSerial (src/src/serial.js): a session over a Web      *)
(* Serial port that turns the Flipper command shell into request/response  *)
(* calls.  Text is modelled as sequences of symbols: a symbol is one       *)
(* character, or an atom standing for a fixed piece of text whose inner    *)
(* characters no operation of the program looks at.                        *)
(*                                                                         *)
(* JavaScript runs one task at a time: the code between two awaits is one  *)
(* atomic step.  Every action below is the resumption of one await (or a   *)
(* call from the application) and runs the code up to the next await that  *)
(* really suspends.                                                        *)
(***************************************************************************)
EXTENDS Integers, Sequences, FiniteSets, TLC

(***************************************************************************)
(* Bounds of the model.                                                    *)
(***************************************************************************)
MaxAccum == 4
MaxTimeout == 1
MaxConnects == 1

(***************************************************************************)
(* Strings.                                                                *)
(***************************************************************************)
Null == 0

WhiteSpace == {" ", "\t", "\n", "\r"}

RECURSIVE IndexFrom(_, _, _)
IndexFrom(s, marker, i) ==
  IF i + Len(marker) > Len(s) THEN -1
  ELSE IF SubSeq(s, i + 1, i + Len(marker)) = marker THEN i
  ELSE IndexFrom(s, marker, i + 1)

\* (lastIndexOf in the place of indexOf)
IndexOfLast(s, marker) ==
  LET hits == {i \in 0..Len(s) : i + Len(marker) <= Len(s)
                                 /\ SubSeq(s, i + 1, i + Len(marker)) = marker}
  IN IF hits = {} THEN -1 ELSE CHOOSE i \in hits : \A j \in hits : j <= i

\* String.prototype.indexOf, with 0-based positions; -1 when absent.
IndexOf(s, marker) == IndexFrom(s, marker, 0)

\* String.prototype.substring(from, to) and substring(from).
Substring(s, from, to) == SubSeq(s, from + 1, to)

SubstringFrom(s, from) == SubSeq(s, from + 1, Len(s))

Includes(s, marker) == IndexOf(s, marker) # -1

StartsWith(s, prefix) ==
  Len(prefix) <= Len(s) /\ SubSeq(s, 1, Len(prefix)) = prefix

RECURSIVE TrimStart(_)
TrimStart(s) ==
  IF s # <<>> /\ Head(s) \in WhiteSpace THEN TrimStart(Tail(s)) ELSE s

RECURSIVE TrimEnd(_)
TrimEnd(s) ==
  IF s # <<>> /\ s[Len(s)] \in WhiteSpace
  THEN TrimEnd(SubSeq(s, 1, Len(s) - 1)) ELSE s

\* (trimStart in the place of trim)
TrimStartOnly(s) == TrimStart(s)

\* String.prototype.trim.
Trim(s) == TrimEnd(TrimStart(s))

(***************************************************************************)
(* More of String.prototype, and parseInt.                                 *)
(***************************************************************************)
RECURSIVE Split(_, _)
\* s.split(c) for a one-character separator c
Split(s, c) ==
  LET i == IndexOf(s, <<c>>)
  IN IF i = -1 THEN <<s>>
     ELSE <<Substring(s, 0, i)>> \o Split(SubstringFrom(s, i + 1), c)

UpperCase == <<"A", "B", "C", "D", "E", "F", "G", "H", "I", "J", "K", "L", "M",
               "N", "O", "P", "Q", "R", "S", "T", "U", "V", "W", "X", "Y", "Z">>

LowerCase == <<"a", "b", "c", "d", "e", "f", "g", "h", "i", "j", "k", "l", "m",
               "n", "o", "p", "q", "r", "s", "t", "u", "v", "w", "x", "y", "z">>

ToLowerChar(c) ==
  IF \E j \in DOMAIN UpperCase : UpperCase[j] = c
  THEN LowerCase[CHOOSE j \in DOMAIN UpperCase : UpperCase[j] = c]
  ELSE c

ToLowerCase(s) == [j \in 1..Len(s) |-> ToLowerChar(s[j])]

Digits == <<"0", "1", "2", "3", "4", "5", "6", "7", "8", "9">>

IsDigit(c) == \E j \in DOMAIN Digits : Digits[j] = c

DigitValue(c) == (CHOOSE j \in DOMAIN Digits : Digits[j] = c) - 1

NaN == [nan |-> TRUE, n |-> 0]

Number(n) == [nan |-> FALSE, n |-> n]

RECURSIVE DigitsValue(_, _)
DigitsValue(s, acc) ==
  IF s # <<>> /\ IsDigit(Head(s))
  THEN DigitsValue(Tail(s), 10 * acc + DigitValue(Head(s)))
  ELSE acc

\* parseInt(s) for a string s: leading whitespace, a sign, decimal digits
\* (the 0x prefix of hexadecimal numerals is left out).
ParseInt(s) ==
  LET t == TrimStart(s)
      signed == t # <<>> /\ Head(t) \in {"+", "-"}
      d == IF signed THEN Tail(t) ELSE t
  IN IF d = <<>> \/ ~IsDigit(Head(d)) THEN NaN
     ELSE Number((IF signed /\ Head(t) = "-" THEN -1 ELSE 1) * DigitsValue(d, 0))

\* parseInt(parts[j]) with parts[j] undefined past the end of the array
ParseIntAt(parts, j) == IF j > Len(parts) THEN NaN ELSE ParseInt(parts[j])

RECURSIVE CollapseSlashes(_)
\* s.replace(/\/+/g, '/')
CollapseSlashes(s) ==
  IF s = <<>> THEN <<>>
  ELSE IF Head(s) = "/" /\ Len(s) > 1 /\ s[2] = "/" THEN CollapseSlashes(Tail(s))
  ELSE <<Head(s)>> \o CollapseSlashes(Tail(s))

(***************************************************************************)
(* getFileType(filename)                                                   *)
(***************************************************************************)
\* the properties of the object literal `types`
FileTypes ==
  << <<<<"t", "x", "t">>, "text">>,
     <<<<"s", "u", "b">>, "subghz">>,
     <<<<"r", "f", "i", "d">>, "rfid">>,
     <<<<"i", "r">>, "infrared">>,
     <<<<"n", "f", "c">>, "nfc">>,
     <<<<"j", "s">>, "script">>,
     <<<<"f", "a", "p">>, "application">>,
     <<<<"i", "b", "t", "n">>, "ibutton">> >>

\* what every object literal inherits from Object.prototype
ObjectPrototype ==
  << <<<<"c", "o", "n", "s", "t", "r", "u", "c", "t", "o", "r">>, "[Function: Object]">>,
     <<<<"_", "_", "p", "r", "o", "t", "o", "_", "_">>, "[Object: null prototype] {}">>,
     <<<<"h", "a", "s", "O", "w", "n", "P", "r", "o", "p", "e", "r", "t", "y">>, "[Function: hasOwnProperty]">>,
     <<<<"i", "s", "P", "r", "o", "t", "o", "t", "y", "p", "e", "O", "f">>, "[Function: isPrototypeOf]">>,
     <<<<"p", "r", "o", "p", "e", "r", "t", "y", "I", "s", "E", "n", "u", "m", "e", "r", "a", "b", "l", "e">>, "[Function: propertyIsEnumerable]">>,
     <<<<"t", "o", "L", "o", "c", "a", "l", "e", "S", "t", "r", "i", "n", "g">>, "[Function: toLocaleString]">>,
     <<<<"t", "o", "S", "t", "r", "i", "n", "g">>, "[Function: toString]">>,
     <<<<"v", "a", "l", "u", "e", "O", "f">>, "[Function: valueOf]">> >>

HasKey(table, key) == \E j \in DOMAIN table : table[j][1] = key

ValueOf(table, key) == table[CHOOSE j \in DOMAIN table : table[j][1] = key][2]

\* types[ext] || 'unknown': an own property, else an inherited one (every one
\* of them is truthy), else undefined
GetFileType(filename) ==
  LET parts == Split(filename, ".")
      ext == ToLowerCase(parts[Len(parts)])
  IN IF HasKey(FileTypes, ext) THEN ValueOf(FileTypes, ext)
     ELSE IF HasKey(ObjectPrototype, ext) THEN ValueOf(ObjectPrototype, ext)
     ELSE "unknown"

(***************************************************************************)
(* The parsing of a directory listing in listDirectory(path).              *)
(***************************************************************************)
DirMarker == <<"[", "D", "]">>
FileMarker == <<"[", "F", "]">>

NoFile == [name |-> <<>>, isDirectory |-> FALSE, path |-> <<>>, size |-> NaN,
           type |-> "null"]

ParseLine(path, line) ==
  LET isDirectory == StartsWith(line, DirMarker)
      isFile == StartsWith(line, FileMarker)
      parts == Split(Trim(SubstringFrom(line, Len(DirMarker))), " ")
      name == parts[1]
  IN IF ~isDirectory /\ ~isFile THEN NoFile
     ELSE [name |-> name,
           isDirectory |-> isDirectory,
           path |-> CollapseSlashes(path \o <<"/">> \o name),
           size |-> IF isFile THEN ParseIntAt(parts, 2) ELSE Number(0),
           type |-> IF isDirectory THEN "directory" ELSE GetFileType(name)]

RECURSIVE SelectLines(_)
\* .map(line => line.trim()).filter(line => line && !line.includes('>'))
SelectLines(lines) ==
  IF lines = <<>> THEN <<>>
  ELSE LET line == Trim(Head(lines))
       IN (IF line # <<>> /\ ~Includes(line, <<">">>) THEN <<line>> ELSE <<>>)
          \o SelectLines(Tail(lines))

RECURSIVE ParseLines(_, _)
\* .map(line => ...).filter(file => file !== null)
ParseLines(path, lines) ==
  IF lines = <<>> THEN <<>>
  ELSE LET file == ParseLine(path, Head(lines))
       IN (IF file # NoFile THEN <<file>> ELSE <<>>)
          \o ParseLines(path, Tail(lines))

ParseListing(path, response) ==
  ParseLines(path, SelectLines(Split(response, "\n")))

(***************************************************************************)
(* The session (the fields of FlipperSerial), the tasks and the            *)
(* environment.                                                            *)
(***************************************************************************)
VARIABLES
  port,            \* this.port: Null or the id of a SerialPort
  reader,          \* this.reader
  writer,          \* this.writer
  isConnected,     \* this.isConnected
  responseBuffer,  \* this.responseBuffer
  readLoopPromise, \* this.readLoopPromise: Null or the id of a readLoop task
  isReading,       \* this.isReading
  loop,            \* the readLoop tasks: id -> "none", "reading", "exited", "failed"
  nPorts,          \* how many ports requestPort has handed out
  fg,              \* the foreground call in flight (one async method call)
  ru,              \* the readUntil call in flight: marker, timeout, elapsed time
  wire,            \* what the call in flight has written to the port so far
  other,           \* a second call in flight, started before the first
                   \* returned: its fg, ru and wire
  dev,             \* the device at the other end of the port
  calls,           \* the platform calls of disconnect() in the last step
  ret,             \* what the last step returned or raised to the application
  hist             \* history: facts about the past that claims refer to

vars == <<port, reader, writer, isConnected, responseBuffer, readLoopPromise,
          isReading, loop, nPorts, fg, ru, wire, other, dev, calls, ret,
          hist>>

PortIds == 1..MaxConnects

NoArg == [marker |-> <<>>, timeout |-> 0, path |-> <<>>, name |-> <<>>,
          content |-> <<>>]

\* got: the markers the call has extracted so far, each with how much the
\* call had written to the port when it was extracted
IdleFg == [op |-> "none", ip |-> 0, pc |-> "idle", i |-> 0, saved |-> <<>>,
           arg |-> NoArg, got |-> <<>>]

NoRU == [marker |-> <<>>, timeout |-> 0, elapsed |-> 0]

\* what a call hands back: its outcome (out: "ok" or the error raised), the
\* value returned, and for the claims the argument it was called with, the
\* response it was computed from, what it wrote to the port, and how many
\* handshake attempts it made and how many of them timed out, what its
\* readUntils extracted and the time its last readUntil had waited
NoRet == [op |-> "none", out |-> "none", val |-> <<>>, arg |-> NoArg,
          from |-> <<>>, wire |-> <<>>, attempts |-> 0, timeouts |-> 0,
          got |-> <<>>, elapsed |-> 0]

NoOld == [port |-> Null, reader |-> Null, writer |-> Null]

\* history: has disconnect() returned since the last successful connect(); was
\* the session ever connected; the handshake attempts of the connect() in
\* flight and how many of them timed out; the path and content of the last
\* writeFile if it returned true (kept when the device is the shell, whose
\* store the history is compared with)
NoHist == [sinceDisc |-> FALSE, everConnected |-> FALSE, attempts |-> 0,
           timeouts |-> 0, written |-> <<>>]

\* A device of which nothing is known: it may send anything at any time.
NoDev == [kind |-> "any", echoNl |-> FALSE, bare |-> FALSE, mode |-> "cmd",
          line |-> <<>>,
          out |-> <<>>, name |-> <<>>, file |-> <<>>, exists |-> FALSE,
          listing |-> <<>>]

\* The state as one record, so that a method is a function from state to state.
St ==
  [port |-> port, reader |-> reader, writer |-> writer,
   isConnected |-> isConnected, responseBuffer |-> responseBuffer,
   readLoopPromise |-> readLoopPromise, isReading |-> isReading,
   loop |-> loop, nPorts |-> nPorts, fg |-> fg, ru |-> ru, wire |-> wire,
   other |-> other,
   dev |-> dev, calls |-> <<>>, ret |-> NoRet, hist |-> hist,
   throwAt |-> "none", old |-> NoOld, raised |-> FALSE]

Commit(m) ==
  \E x \in {m} :
    /\ port' = x.port
    /\ reader' = x.reader
    /\ writer' = x.writer
    /\ isConnected' = x.isConnected
    /\ responseBuffer' = x.responseBuffer
    /\ readLoopPromise' = x.readLoopPromise
    /\ isReading' = x.isReading
    /\ loop' = x.loop
    /\ nPorts' = x.nPorts
    /\ fg' = x.fg
    /\ ru' = x.ru
    /\ wire' = x.wire
    /\ other' = x.other
    /\ dev' = x.dev
    /\ calls' = x.calls
    /\ ret' = x.ret
    /\ hist' = x.hist

\* constructor()
Constructed ==
  /\ port = Null
  /\ reader = Null
  /\ writer = Null
  /\ isConnected = FALSE
  /\ responseBuffer = <<>>
  /\ readLoopPromise = Null
  /\ isReading = TRUE

EnvInit ==
  /\ loop = [p \in PortIds |-> "none"]
  /\ nPorts = 0
  /\ fg = IdleFg
  /\ ru = NoRU
  /\ wire = <<>>
  /\ other = [fg |-> IdleFg, ru |-> NoRU, wire |-> <<>>]
  /\ calls = <<>>
  /\ ret = NoRet
  /\ hist = NoHist
  /\ dev = NoDev

(***************************************************************************)
(* The device.  kind "any": nothing is known of it, the ingest loop may    *)
(* receive anything.  kind "shell": the command shell of the wire          *)
(* contract: it takes a line, echoes it (echoNl: with the line terminator  *)
(* that was typed), answers, and prints its prompt; `storage write` puts   *)
(* it in raw-capture mode until the interrupt byte.  It holds one file.    *)
(* Its prompt is '>: ' always, or (bare) '> ' but for the '>: ' that       *)
(* follows the end of a raw capture.                                       *)
(***************************************************************************)
CtrlC == "^C"
CRLF == <<"\r", "\n">>
Banner == "Just write your text data. New line by Ctrl+Enter, exit by Ctrl+C."

ShellPrompt == CRLF \o <<">", ":", " ">>

\* the prompt that ends a command
ShellPromptOf(d) == IF d.bare THEN CRLF \o <<">", " ">> ELSE ShellPrompt

RECURSIVE ListingText(_)
ListingText(lines) ==
  IF lines = <<>> THEN CRLF
  ELSE CRLF \o Head(lines) \o ListingText(Tail(lines))

ShellAnswer(d, line) ==
  LET cmd == Head(line)
      known == d.exists /\ Tail(line) = d.name
  IN CASE cmd = "storage list " -> ListingText(d.listing)
       [] cmd = "storage read " ->
            IF known THEN <<"Size: n">> \o CRLF \o d.file \o CRLF
            ELSE <<"Storage error: file/dir not exist">> \o CRLF
       [] cmd = "storage stat " ->
            IF known THEN <<"File, size: n">> \o CRLF
            ELSE <<"Storage error: file/dir not exist">> \o CRLF
       [] OTHER -> <<>>

ShellExecute(d) ==
  LET echo == d.line \o (IF d.echoNl THEN CRLF ELSE <<>>)
  IN IF d.line = <<>> THEN [d EXCEPT !.out = @ \o ShellPromptOf(d)]
     ELSE IF Head(d.line) = "storage write "
     THEN [d EXCEPT !.out = @ \o echo \o <<Banner>> \o CRLF,
                    !.mode = "capture", !.line = <<>>,
                    !.name = Tail(d.line), !.exists = FALSE]
     ELSE [d EXCEPT !.out = @ \o echo \o ShellAnswer(d, d.line)
                                \o ShellPromptOf(d),
                    !.line = <<>>]

ShellSymbol(d, c) ==
  IF d.mode = "capture"
  THEN IF c = CtrlC
       THEN [d EXCEPT !.file = d.line, !.exists = TRUE, !.mode = "cmd",
                      !.line = <<>>, !.out = @ \o ShellPrompt]
       ELSE [d EXCEPT !.line = @ \o <<c>>]
  ELSE IF c = CtrlC
       THEN [d EXCEPT !.line = <<>>, !.out = @ \o ShellPromptOf(d)]
  ELSE IF c = "\r" THEN d
  ELSE IF c = "\n" THEN ShellExecute(d)
  ELSE [d EXCEPT !.line = @ \o <<c>>]

RECURSIVE ShellInput(_, _)
ShellInput(d, data) ==
  IF data = <<>> THEN d
  ELSE ShellInput(ShellSymbol(d, Head(data)), Tail(data))

DevInput(d, data) == IF d.kind = "shell" THEN ShellInput(d, data) ELSE d

(***************************************************************************)
(* disconnect(): capture the references, reset every field, then clean up  *)
(* the captured references inside one try block.  m.throwAt names the      *)
(* platform call that raises synchronously in this run ("none": no call    *)
(* does); the calls after it in the try block are skipped.  There is no    *)
(* await in disconnect(): it is part of the step that calls it.            *)
(***************************************************************************)
CleanupCalls ==
  {"reader.cancel", "reader.releaseLock", "writer.close",
   "writer.releaseLock", "port.close"}

RECURSIVE UpTo(_, _)
UpTo(s, x) ==
  IF s = <<>> THEN <<>>
  ELSE IF Head(s) = x THEN <<x>>
  ELSE <<Head(s)>> \o UpTo(Tail(s), x)

\* the platform calls of the try block, for the references captured
Planned(old) ==
  (IF old.reader # Null THEN <<"reader.cancel", "reader.releaseLock">> ELSE <<>>)
  \o (IF old.writer # Null THEN <<"writer.close", "writer.releaseLock">> ELSE <<>>)
  \o (IF old.port # Null THEN <<"port.close">> ELSE <<>>)

\* const oldPort = this.port; const oldReader = ...; const oldWriter = ...
Capture(m) ==
  [m EXCEPT !.old = [port |-> m.port, reader |-> m.reader, writer |-> m.writer]]

\* (the reset that forgets the connected flag)
ResetKeepsConnected(m) ==
  [m EXCEPT !.port = Null, !.reader = Null, !.writer = Null,
            !.isReading = FALSE,
            !.responseBuffer = <<>>, !.readLoopPromise = Null]

\* (a reset that leaves the text received so far in the buffer)
ResetKeepsBuffer(m) ==
  [m EXCEPT !.port = Null, !.reader = Null, !.writer = Null,
            !.isConnected = FALSE, !.isReading = FALSE,
            !.readLoopPromise = Null]

\* (a reset of the references only: the flags are left as they were)
ResetReferencesOnly(m) ==
  [m EXCEPT !.port = Null, !.reader = Null, !.writer = Null,
            !.responseBuffer = <<>>, !.readLoopPromise = Null]

\* this.port = null; ... this.readLoopPromise = null
Reset(m) ==
  [m EXCEPT !.port = Null, !.reader = Null, !.writer = Null,
            !.isConnected = FALSE, !.isReading = FALSE,
            !.responseBuffer = <<>>, !.readLoopPromise = Null]

\* the try block: each call is logged with the session state it happens in.
\* cancel() and close() return promises whose rejection .catch(() => {})
\* swallows; a releaseLock() that throws ends the try block.
Cleanup(m) ==
  LET planned == Planned(m.old)
      throws == /\ m.throwAt \in {"reader.releaseLock", "writer.releaseLock"}
                /\ \E j \in 1..Len(planned) : planned[j] = m.throwAt
      done == IF throws THEN UpTo(planned, m.throwAt) ELSE planned
  IN [m EXCEPT
        !.calls = [j \in 1..Len(done) |->
                     [call |-> done[j], conn |-> m.isConnected,
                      nulled |-> m.port = Null /\ m.reader = Null
                                 /\ m.writer = Null]],
        !.raised = throws]

DisconnectStep(m, s) ==
  CASE s = "capture" -> Capture(m)
    [] s = "reset" -> Reset(m)
    [] s = "cleanup" -> Cleanup(m)

\* (the clean-up done before the fields are reset)
CleanupBeforeReset == <<"capture", "cleanup", "reset">>

\* the order of the statements of disconnect()
DisconnectBody == <<"capture", "reset", "cleanup">>

RECURSIVE Run(_, _)
Run(m, body) ==
  IF body = <<>> THEN m ELSE Run(DisconnectStep(m, Head(body)), Tail(body))

Disconnect(m) == [Run(m, DisconnectBody) EXCEPT !.hist.sinceDisc = TRUE]

\* (a disconnect() without its catch: what the clean-up raised gets out)
DisconnectRethrows(raised) == IF raised THEN "CleanupError" ELSE "ok"

\* catch (error) { debug(...) } ... return true
DisconnectOutcome(raised) == "ok"

(***************************************************************************)
(* The async methods, each as the sequence of its statements.              *)
(***************************************************************************)
\* the messages of the errors the methods raise
NotConnected == "Not connected to Flipper"
HandshakeFailure == "Failed to establish CLI prompt"
ReadTimeout == "Read timeout"

HandshakeAttempts == 3
HandshakeTimeout == 2000
DefaultTimeout == 5000

Prompt == <<">">>

Ins(k, data, t, try) == [k |-> k, data |-> data, t |-> t, try |-> try]

Until(marker, t) == Ins("until", marker, t, FALSE)

\* readUntil(marker, timeout) called by the application
readUntilProg(arg) ==
  <<Until(arg.marker, arg.timeout), Ins("return", "response", 0, FALSE)>>

\* getFileType(filename) called by the application
getFileTypeProg == <<Ins("return", "fileType", 0, FALSE)>>

EchoTimeout == 2000
PromptTimeout == 3000
BannerTimeout == 5000

PostCapturePrompt == <<">", ":">>

CheckConn == Ins("checkConn", <<>>, 0, FALSE)
Clear == Ins("clear", <<>>, 0, FALSE)
Write(data) == Ins("write", data, 0, FALSE)
Raw(data) == Ins("raw", data, 0, FALSE)
Sleep(ms) == Ins("sleep", <<>>, ms, FALSE)
Return(what) == Ins("return", what, 0, FALSE)

\* String.prototype.lastIndexOf for a one-character pattern
LastIndexOf(s, c) ==
  IF \E j \in 1..Len(s) : s[j] = c
  THEN (CHOOSE j \in 1..Len(s) : s[j] = c /\ \A k \in (j + 1)..Len(s) : s[k] # c) - 1
  ELSE -1

\* path.substring(0, path.lastIndexOf('/')): substring takes -1 as 0
DirPath(path) == Substring(path, 0, LastIndexOf(path, "/"))

listDirectoryProg(arg) ==
  LET cmd == <<"storage list ">> \o arg.path
  IN <<CheckConn, Clear, Write(cmd \o CRLF), Until(cmd, DefaultTimeout),
       Until(Prompt, DefaultTimeout), Return("files")>>

\* (a writeCommand that waits for the prompt before the echo)
writeCommandBodyPromptFirst(cmd) ==
  <<Write(cmd \o CRLF), Until(PostCapturePrompt, PromptTimeout),
    Until(cmd, EchoTimeout)>>

\* writeCommand(cmd) for a non-empty cmd
writeCommandBody(cmd) ==
  <<Write(cmd \o CRLF), Until(cmd, EchoTimeout),
    Until(PostCapturePrompt, PromptTimeout)>>

\* writeCommand(cmd) called by the application
writeCommandProg(arg) ==
  IF arg.name = <<>> THEN <<Return("undefined")>>
  ELSE writeCommandBody(arg.name) \o <<Return("undefined")>>

\* (a writeFile that sends the content without waiting for the banner)
writeFileProgNoBannerWait(arg) ==
  LET dirPath == DirPath(arg.path)
      statCmd == <<"storage stat ">> \o arg.path
  IN <<CheckConn, Clear>>
     \o (IF dirPath # <<>>
         THEN writeCommandBody(<<"storage mkdir ">> \o dirPath) ELSE <<>>)
     \o <<Write(<<"storage write ">> \o arg.path \o CRLF),
          Write(arg.content), Sleep(500),
          Write(CRLF), Sleep(200),
          Raw(<<CtrlC>>), Sleep(500),
          Until(PostCapturePrompt, BannerTimeout),
          Sleep(200), Clear,
          Write(statCmd \o CRLF), Until(statCmd, DefaultTimeout),
          Until(PostCapturePrompt, DefaultTimeout),
          Ins("checkStat", <<"File verification failed">>, 0, FALSE),
          Return("true")>>

writeFileProg(arg) ==
  LET dirPath == DirPath(arg.path)
      statCmd == <<"storage stat ">> \o arg.path
  IN <<CheckConn, Clear>>
     \o (IF dirPath # <<>>
         THEN writeCommandBody(<<"storage mkdir ">> \o dirPath) ELSE <<>>)
     \o <<Write(<<"storage write ">> \o arg.path \o CRLF),
          Until(<<Banner>>, BannerTimeout),
          Write(arg.content), Sleep(500),
          Write(CRLF), Sleep(200),
          Raw(<<CtrlC>>), Sleep(500),
          Until(PostCapturePrompt, BannerTimeout),
          Sleep(200), Clear,
          Write(statCmd \o CRLF), Until(statCmd, DefaultTimeout),
          Until(PostCapturePrompt, DefaultTimeout),
          Ins("checkStat", <<"File verification failed">>, 0, FALSE),
          Return("true")>>

readFileProg(arg) ==
  LET cmd == <<"storage read ">> \o arg.path
  IN <<CheckConn, Clear, Write(cmd \o CRLF), Until(cmd, DefaultTimeout),
       Until(<<"\n">>, DefaultTimeout), Until(Prompt, DefaultTimeout),
       Return("trim")>>

loaderListProg ==
  <<CheckConn, Clear, Write(<<"loader list">> \o CRLF),
    Until(<<"loader list">>, DefaultTimeout), Until(Prompt, DefaultTimeout),
    Return("apps")>>

Quoted(s) == <<"\"">> \o s \o <<"\"">>

loaderOpenBody(appName, filePath) ==
  LET command == IF filePath # <<>>
                 THEN <<"loader open ">> \o Quoted(appName) \o <<" ">>
                      \o Quoted(filePath)
                 ELSE <<"loader open ">> \o Quoted(appName)
  IN <<CheckConn, Clear, Write(command \o CRLF),
       Until(command, DefaultTimeout), Until(Prompt, DefaultTimeout),
       Ins("checkError", <<"Loader open failed">>, 0, FALSE)>>

loaderCloseBody ==
  <<CheckConn, Clear, Write(<<"loader close">> \o CRLF),
    Until(<<"loader close">>, DefaultTimeout), Until(Prompt, DefaultTimeout),
    Ins("checkError", <<"Loader close failed">>, 0, FALSE)>>

loaderInfoBody ==
  <<CheckConn, Clear, Write(<<"loader info">> \o CRLF),
    Until(<<"loader info">>, DefaultTimeout), Until(Prompt, DefaultTimeout)>>

loaderSignalProg(arg) ==
  LET command == <<"loader signal ">> \o arg.name
                 \o (IF arg.path # <<>> THEN <<" ">> \o arg.path ELSE <<>>)
  IN <<CheckConn, Clear, Write(command \o CRLF),
       Until(command, DefaultTimeout), Until(Prompt, DefaultTimeout),
       Ins("checkError", <<"Signal failed">>, 0, FALSE), Return("true")>>

\* (an openBadUSB that opens without closing what is running)
openBadUSBProgNoClose ==
  loaderInfoBody \o loaderOpenBody(<<"Bad USB">>, <<>>) \o <<Return("true")>>

openBadUSBProg ==
  loaderInfoBody
  \o <<Ins("ifRunning", <<>>, Len(loaderCloseBody), FALSE)>>
  \o loaderCloseBody
  \o loaderOpenBody(<<"Bad USB">>, <<>>)
  \o <<Return("true")>>

\* (a handshake attempt that does not send the interrupt byte)
connectProgNoInterrupt ==
  << Ins("requestPort", <<>>, 0, FALSE),
     Ins("open", <<>>, 0, FALSE),
     Ins("attach", <<>>, 0, FALSE),
     Ins("sleep", <<>>, 500, FALSE),
     Ins("clear", <<>>, 0, FALSE),
     Ins("forInit", <<>>, 0, FALSE),
     Ins("forTest", <<>>, 0, FALSE),
     Ins("sleep", <<>>, 100, TRUE),
     Ins("write", CRLF, 0, TRUE),
     Ins("until", Prompt, HandshakeTimeout, TRUE),
     Ins("connected", <<>>, 0, TRUE),
     Ins("catchSleep", <<>>, 500, FALSE),
     Ins("forNext", <<>>, 0, FALSE),
     Ins("throwHandshake", <<>>, 0, FALSE) >>

connectProg ==
  << Ins("requestPort", <<>>, 0, FALSE),
     Ins("open", <<>>, 0, FALSE),
     Ins("attach", <<>>, 0, FALSE),
     Ins("sleep", <<>>, 500, FALSE),
     Ins("clear", <<>>, 0, FALSE),
     Ins("forInit", <<>>, 0, FALSE),
     Ins("forTest", <<>>, 0, FALSE),
     Ins("raw", <<CtrlC>>, 0, TRUE),
     Ins("sleep", <<>>, 100, TRUE),
     Ins("write", CRLF, 0, TRUE),
     Ins("until", Prompt, HandshakeTimeout, TRUE),
     Ins("connected", <<>>, 0, TRUE),
     Ins("catchSleep", <<>>, 500, FALSE),
     Ins("forNext", <<>>, 0, FALSE),
     Ins("throwHandshake", <<>>, 0, FALSE) >>

Program(f) ==
  CASE f.op = "readUntil" -> readUntilProg(f.arg)
    [] f.op = "getFileType" -> getFileTypeProg
    [] f.op = "connect" -> connectProg
    [] f.op = "listDirectory" -> listDirectoryProg(f.arg)
    [] f.op = "writeCommand" -> writeCommandProg(f.arg)
    [] f.op = "writeFile" -> writeFileProg(f.arg)
    [] f.op = "readFile" -> readFileProg(f.arg)
    [] f.op = "loaderList" -> loaderListProg
    [] f.op = "loaderOpen" ->
         loaderOpenBody(f.arg.name, f.arg.path) \o <<Return("true")>>
    [] f.op = "loaderClose" -> loaderCloseBody \o <<Return("true")>>
    [] f.op = "loaderInfo" -> loaderInfoBody \o <<Return("trim")>>
    [] f.op = "loaderSignal" -> loaderSignalProg(f.arg)
    [] f.op = "openBadUSB" -> openBadUSBProg
    [] OTHER -> <<>>

IpOf(P, k) == CHOOSE j \in DOMAIN P : P[j].k = k

(***************************************************************************)
(* Running the statements of the call in flight up to its next await.      *)
(***************************************************************************)
Goto(m, j) == [m EXCEPT !.fg.ip = j, !.fg.pc = "run"]

Advance(m) == Goto(m, m.fg.ip + 1)

Suspend(m, pc) == [m EXCEPT !.fg.pc = pc]

Finish(m, out, val) ==
  [m EXCEPT !.ret = [op |-> m.fg.op, out |-> out, val |-> val,
                     arg |-> m.fg.arg, from |-> m.fg.saved, wire |-> m.wire,
                     attempts |-> m.hist.attempts,
                     timeouts |-> m.hist.timeouts, got |-> m.fg.got,
                     elapsed |-> m.ru.elapsed],
            !.fg = IdleFg,
            !.ru = NoRU,
            !.wire = <<>>,
            !.hist.attempts = 0,
            !.hist.timeouts = 0,
            !.hist.written =
               IF m.fg.op # "writeFile" \/ m.dev.kind # "shell" THEN @
               ELSE IF out = "ok" THEN <<m.fg.arg.path, m.fg.arg.content>>
               ELSE <<>>]

\* (a split that cuts one position too far behind the marker)
FindAndSplitOneTooFar(m) ==
  LET index == IndexOf(m.responseBuffer, m.ru.marker)
      response == Substring(m.responseBuffer, 0, index)
  IN [m EXCEPT
        !.responseBuffer =
           SubstringFrom(m.responseBuffer, index + Len(m.ru.marker) + 1),
        !.fg.saved = Trim(response),
        !.fg.got = Append(@, [marker |-> m.ru.marker, at |-> Len(m.wire)])]

\* The find-and-split of readUntil on the buffer as it is now.
FindAndSplit(m) ==
  LET index == IndexOf(m.responseBuffer, m.ru.marker)
      response == Substring(m.responseBuffer, 0, index)
  IN [m EXCEPT
        !.responseBuffer =
           SubstringFrom(m.responseBuffer, index + Len(m.ru.marker)),
        !.fg.saved = Trim(response),
        !.fg.got = Append(@, [marker |-> m.ru.marker, at |-> Len(m.wire)])]

\* (a poll that looks at the deadline first: past it, nothing is found)
FoundBeforeDeadline(m) ==
  /\ IndexOf(m.responseBuffer, m.ru.marker) # -1
  /\ m.ru.elapsed <= m.ru.timeout

\* if (index !== -1)
Found(m) == IndexOf(m.responseBuffer, m.ru.marker) # -1

\* (the start time taken anew on every poll: no time ever seems to pass)
ExpiredStuck(m) == 0 > m.ru.timeout

\* Date.now() - startTime > timeout
Expired(m) == m.ru.elapsed > m.ru.timeout

ReturnValue(m, what) ==
  CASE what = "response" -> m.fg.saved
    [] what = "trim" -> Trim(m.fg.saved)
    [] what = "files" -> ParseListing(m.fg.arg.path, m.fg.saved)
    [] what = "apps" -> SelectLines(Split(m.fg.saved, "\n"))
    [] what = "fileType" -> <<GetFileType(m.fg.arg.name)>>
    [] what = "undefined" -> <<>>
    [] OTHER -> <<"true">>

\* (a verification that looks for 'Error' only)
VerificationFailsOnErrorOnly(statResponse) ==
  Includes(statResponse, <<"E", "r", "r", "o", "r">>)

\* statResponse.includes('Error') || statResponse.includes('not found')
VerificationFails(statResponse) ==
  \/ Includes(statResponse, <<"E", "r", "r", "o", "r">>)
  \/ Includes(statResponse, <<"n", "o", "t", " ", "f", "o", "u", "n", "d">>)

\* (an outer catch of connect() that raises without disconnecting)
ConnectCatchNoCleanup(m, error) == Finish(m, error, <<>>)

\* the outer catch of connect(): await this.disconnect(); throw error
ConnectCatch(m, error) ==
  LET d == Disconnect(m)
      outcome == DisconnectOutcome(d.raised)
  IN Finish(d, IF outcome = "ok" THEN error ELSE outcome, <<>>)

\* (i <= 3 in the place of i < 3)
LoopTestInclusive(i) == i <= HandshakeAttempts

\* i < 3
LoopTest(i) == i < HandshakeAttempts

RECURSIVE Exec(_), Throw(_, _)
Throw(m, err) ==
  IF m.fg.op = "connect"
  THEN IF Program(m.fg)[m.fg.ip].try
       THEN Exec(Goto([m EXCEPT !.hist.timeouts =
                                   IF err = ReadTimeout THEN @ + 1 ELSE @],
                      IpOf(Program(m.fg), "catchSleep")))
       ELSE ConnectCatch(m, err)
  ELSE Finish(m, err, <<>>)

Exec(m) ==
  LET P == Program(m.fg)
      ins == P[m.fg.ip]
      k == ins.k
  IN CASE k = "checkConn" ->
            IF ~m.isConnected THEN Throw(m, NotConnected)
            ELSE Exec(Advance(m))
       [] k = "clear" -> Exec(Advance([m EXCEPT !.responseBuffer = <<>>]))
       [] k \in {"write", "raw"} ->
            IF m.writer = Null THEN Throw(m, "TypeError")
            ELSE Suspend([m EXCEPT !.wire = @ \o ins.data,
                                   !.dev = DevInput(@, ins.data)], "write")
       [] k \in {"sleep", "catchSleep"} -> Suspend(m, "sleep")
       [] k = "until" ->
            LET m1 == [m EXCEPT !.ru = [marker |-> ins.data, timeout |-> ins.t,
                                        elapsed |-> 0]]
            IN IF Found(m1) THEN Exec(Advance(FindAndSplit(m1)))
               ELSE IF Expired(m1) THEN Throw(m1, ReadTimeout)
               ELSE Suspend(m1, "poll")
       [] k = "return" -> Finish(m, "ok", ReturnValue(m, ins.data))
       [] k = "requestPort" -> Suspend(m, "request")
       [] k = "open" -> Suspend(m, "open")
       [] k = "attach" ->
            IF m.port = Null THEN Throw(m, "TypeError")
            ELSE Exec(Advance(
                   [m EXCEPT !.reader = m.port,
                             !.readLoopPromise = m.port,
                             !.loop[m.port] =
                                IF m.isReading THEN "reading" ELSE "exited",
                             !.writer = m.port]))
       [] k = "checkError" ->
            IF Includes(ToLowerCase(m.fg.saved), <<"e", "r", "r", "o", "r">>)
            THEN Throw(m, ins.data[1])
            ELSE Exec(Advance(m))
       [] k = "checkStat" ->
            IF VerificationFails(m.fg.saved) THEN Throw(m, ins.data[1])
            ELSE Exec(Advance(m))
       [] k = "ifRunning" ->
            IF Includes(m.fg.saved, <<"r", "u", "n", "n", "i", "n", "g">>)
            THEN Exec(Advance(m))
            ELSE Exec(Goto(m, m.fg.ip + 1 + ins.t))
       [] k = "forInit" -> Exec(Advance([m EXCEPT !.fg.i = 0]))
       [] k = "forTest" ->
            IF LoopTest(m.fg.i)
            THEN Exec(Advance([m EXCEPT !.hist.attempts = @ + 1]))
            ELSE Exec(Goto(m, IpOf(P, "throwHandshake")))
       [] k = "forNext" ->
            Exec(Goto([m EXCEPT !.fg.i = @ + 1], IpOf(P, "forTest")))
       [] k = "connected" ->
            Finish([m EXCEPT !.isConnected = TRUE,
                             !.hist.sinceDisc = FALSE,
                             !.hist.everConnected = TRUE], "ok", <<"true">>)
       [] k = "throwHandshake" ->
            Throw(m, HandshakeFailure)

(***************************************************************************)
(* Actions.                                                                *)
(***************************************************************************)
StartFg(op, arg) ==
  [St EXCEPT !.fg = [op |-> op, ip |-> 1, pc |-> "run", i |-> 0,
                     saved |-> <<>>, arg |-> arg, got |-> <<>>],
             !.ru = NoRU,
             !.wire = <<>>,
             !.hist.attempts = 0,
             !.hist.timeouts = 0]

\* Only connect() calls disconnect() on its way out: after a failed port
\* request or open, and after the pause that follows the last failed
\* handshake attempt.
Throwers == IF fg.op = "connect" THEN CleanupCalls \cup {"none"} ELSE {"none"}

\* await this.writer.write(...) (and the settle delay of write()) is over
Fg_WriteDone ==
  /\ fg.pc = "write"
  /\ \E ok \in BOOLEAN :
       Commit(IF ok THEN Exec(Advance(St)) ELSE Throw(St, "WriteError"))

\* await new Promise(resolve => setTimeout(resolve, ...)) is over
Fg_SleepDone ==
  /\ fg.pc = "sleep"
  /\ \E t \in Throwers :
       Commit(Exec(Advance([St EXCEPT !.throwAt = t])))

\* (a poll that never looks at the deadline)
PollEnabledOnFound == fg.pc = "poll" /\ Found(St)

\* A poll that finds neither the marker nor the deadline passed sleeps again.
PollEnabled == fg.pc = "poll" /\ (Found(St) \/ Expired(St))

\* the 1 ms timer of readUntil fired: look again
Fg_Poll ==
  /\ PollEnabled
  /\ Commit(IF Found(St) THEN Exec(Advance(FindAndSplit(St)))
            ELSE Throw(St, ReadTimeout))

\* Date.now() advances by 1 ms while a readUntil is waiting
TickUnit ==
  /\ fg.pc = "poll"
  /\ ru.elapsed <= ru.timeout
  /\ ru' = [ru EXCEPT !.elapsed = @ + 1]
  /\ calls' = <<>>
  /\ ret' = NoRet
  /\ UNCHANGED <<port, reader, writer, isConnected, responseBuffer,
                 readLoopPromise, isReading, loop, nPorts, fg, wire, other,
                 dev, hist>>

\* disconnect() called by the application
Disconnect_Call ==
  \E t \in CleanupCalls \cup {"none"} :
    LET m == Disconnect([St EXCEPT !.throwAt = t])
        outcome == DisconnectOutcome(m.raised)
    IN Commit([m EXCEPT !.ret = [NoRet EXCEPT
                                   !.op = "disconnect",
                                   !.out = outcome,
                                   !.val = IF outcome = "ok" THEN <<"true">>
                                           ELSE <<>>]])

(***************************************************************************)
(* readLoop(): the resumptions of `await this.reader.read()`.              *)
(***************************************************************************)
LoopStep(id, next, buf, d) ==
  /\ loop' = [loop EXCEPT ![id] = next]
  /\ responseBuffer' = buf
  /\ dev' = d
  /\ calls' = <<>>
  /\ ret' = NoRet
  /\ UNCHANGED <<port, reader, writer, isConnected, readLoopPromise,
                 isReading, nPorts, fg, ru, wire, other, hist>>

\* (a loop that appends the chunk without looking at the stop flag)
ReadLoop_ChunkIgnoresStop(id, chunk, d) ==
  /\ loop[id] = "reading"
  /\ LoopStep(id, "reading", responseBuffer \o chunk, d)

\* { value, done: false }; d is the device after it has sent the chunk
ReadLoop_Chunk(id, chunk, d) ==
  /\ loop[id] = "reading"
  /\ IF ~isReading
     THEN LoopStep(id, "exited", responseBuffer, d)
     ELSE LoopStep(id, "reading", responseBuffer \o chunk, d)

\* { done: true }
ReadLoop_Done(id) ==
  /\ loop[id] = "reading"
  /\ LoopStep(id, "exited", responseBuffer, dev)

ReadErrors == {"NetworkError", "BreakError"}

\* the read() of a loop rejected with the error `name`; next: how the loop
\* ends.  ret keeps the name of the error for the claims.
LoopFault(id, name, next) ==
  /\ loop[id] = "reading"
  /\ loop' = [loop EXCEPT ![id] = next]
  /\ calls' = <<>>
  /\ ret' = [NoRet EXCEPT !.op = "readLoop", !.out = name]
  /\ UNCHANGED <<port, reader, writer, isConnected, responseBuffer,
                 readLoopPromise, isReading, nPorts, fg, ru, wire, other, dev,
                 hist>>

\* (a catch that rethrows whatever the error is)
ReadLoop_ErrorAlwaysThrows(id, name) == LoopFault(id, name, "failed")

\* catch (error): break on a NetworkError or after the stop signal, else
\* throw error
ReadLoop_Error(id, name) ==
  IF name = "NetworkError" \/ ~isReading
  THEN LoopFault(id, name, "exited")
  ELSE LoopFault(id, name, "failed")

(***************************************************************************)
(* Marker extraction on its own: a connected session whose ingest loop     *)
(* appends whatever arrives, and an application that calls readUntil.      *)
(***************************************************************************)
Chars == {"a", " ", ">"}

Markers == {<<">">>, <<"a">>, <<">", "a">>, <<" ", ">">>}

\* a session after a successful connect()
ConnectedSession ==
  /\ port = 1
  /\ reader = 1
  /\ writer = 1
  /\ isConnected = TRUE
  /\ responseBuffer = <<>>
  /\ readLoopPromise = 1
  /\ isReading = TRUE
  /\ loop = [p \in PortIds |-> IF p = 1 THEN "reading" ELSE "none"]
  /\ nPorts = 1
  /\ fg = IdleFg
  /\ ru = NoRU
  /\ wire = <<>>
  /\ other = [fg |-> IdleFg, ru |-> NoRU, wire |-> <<>>]
  /\ calls = <<>>
  /\ ret = NoRet
  /\ hist = [NoHist EXCEPT !.everConnected = TRUE]

ReadUntil_Call ==
  /\ fg.pc = "idle"
  /\ \E marker \in Markers, timeout \in 0..MaxTimeout :
       Commit(Exec(StartFg("readUntil",
                           [NoArg EXCEPT !.marker = marker,
                                         !.timeout = timeout])))

Ingest ==
  /\ Len(responseBuffer) < MaxAccum
  /\ \E c \in Chars : ReadLoop_Chunk(1, <<c>>, dev)

NextReadUntil == ReadUntil_Call \/ Fg_Poll \/ TickUnit \/ Ingest

\* The clock advances and the 1 ms timer of a waiting readUntil fires.  The
\* second is WF_vars(Fg_Poll) in its state form: a poll step leaves Fg_Poll
\* disabled (it ends the wait, or starts one with the marker absent and no
\* time elapsed), so "taken infinitely often" implies "disabled infinitely
\* often".
InitReadUntil == ConnectedSession /\ dev = NoDev

SpecReadUntil ==
  /\ InitReadUntil
  /\ [][NextReadUntil]_vars
  /\ WF_vars(TickUnit)
  /\ []<>(~PollEnabled)

OccursAt(b, d, i) == i + Len(d) <= Len(b) /\ SubSeq(b, i + 1, i + Len(d)) = d

Contains(b, d) == \E i \in 0..Len(b) : OccursAt(b, d, i)

AllWhite(s) == \A j \in 1..Len(s) : s[j] \in WhiteSpace

\* r is s without its leading and trailing whitespace
IsTrimOf(r, s) ==
  \E a \in 0..Len(s), z \in 0..Len(s) :
    /\ a + z <= Len(s)
    /\ AllWhite(SubSeq(s, 1, a))
    /\ AllWhite(SubSeq(s, Len(s) - z + 1, Len(s)))
    /\ r = SubSeq(s, a + 1, Len(s) - z)
    /\ (r = <<>> \/ (r[1] \notin WhiteSpace /\ r[Len(r)] \notin WhiteSpace))

ExtractsFirst(b, d, r, rest) ==
  \E i \in 0..Len(b) :
    /\ OccursAt(b, d, i)
    /\ \A j \in 0..(i - 1) : ~OccursAt(b, d, j)
    /\ IsTrimOf(r, SubSeq(b, 1, i))
    /\ rest = SubSeq(b, i + Len(d) + 1, Len(b))

\* C1: a readUntil(d) that looks at an accumulator holding d returns the text
\* before the first occurrence of d, trimmed, and leaves in the accumulator
\* exactly the text after that occurrence.
C1_ExtractsPrefix ==
  [][(ret'.op = "readUntil" /\ Contains(responseBuffer, ret'.arg.marker))
       => /\ ret'.out = "ok"
          /\ ExtractsFirst(responseBuffer, ret'.arg.marker, ret'.val,
                           responseBuffer')]_vars

\* a readUntil returned text that needed trimming and left a remainder behind
C1_Witness ==
  /\ ret.op = "readUntil"
  /\ ret.out = "ok"
  /\ ret.val # <<>>
  /\ responseBuffer # <<>>
  /\ Len(ret.val) + Len(ret.arg.marker) + Len(responseBuffer) < MaxAccum

\* C2: a readUntil returns a value only when the accumulator holds its
\* delimiter, and one whose delimiter does not show up in the accumulator
\* ends with the read-timeout error: it does not wait forever, whatever the
\* ingest loop appends meanwhile.
C2_TimesOut ==
  /\ [][(ret'.op = "readUntil" /\ ret'.out = "ok")
          => Contains(responseBuffer, ret'.arg.marker)]_vars
  /\ (fg.pc = "poll")
       ~> (\/ ret.op = "readUntil" /\ ret.out = ReadTimeout
           \/ Contains(responseBuffer, ru.marker))

\* a readUntil timed out although the ingest loop had filled the accumulator
C2_Witness ==
  /\ ret.op = "readUntil"
  /\ ret.out = ReadTimeout
  /\ Len(responseBuffer) = MaxAccum

(***************************************************************************)
(* The session and its life cycle: an application that connects, calls the *)
(* operations and disconnects at any time, over a port that may fail at    *)
(* every call and a device of which nothing is known.                      *)
(***************************************************************************)
MaxPending == 1

Ops == {"listDirectory", "readFile", "writeFile", "loaderList", "loaderOpen",
        "loaderClose", "loaderInfo", "loaderSignal", "openBadUSB"}

Paths == {<<"/", "ext", "/", "a">>}

\* the arguments the application calls an operation with
OpArgs(op) ==
  CASE op \in {"listDirectory", "readFile"} ->
         {[NoArg EXCEPT !.path = path] : path \in Paths}
    [] op = "writeFile" ->
         {[NoArg EXCEPT !.path = path, !.content = <<"c">>] : path \in Paths}
    [] op = "loaderOpen" -> {[NoArg EXCEPT !.name = <<"App">>]}
    [] op = "loaderSignal" -> {[NoArg EXCEPT !.name = <<"sig">>]}
    [] op = "writeCommand" -> {[NoArg EXCEPT !.name = <<"help">>], NoArg}
    [] OTHER -> {NoArg}

\* connect() called by the application
Connect_Call ==
  /\ fg.pc = "idle"
  /\ nPorts < MaxConnects
  /\ Commit(Exec(StartFg("connect", NoArg)))

\* One of the operations called by the application.  While another call is
\* in flight, only a call that ends at once (it raises before its first
\* await) is taken: the call in flight goes on as it was.
Op_Call ==
  \E op \in Ops :
    \E arg \in OpArgs(op) :
      LET m == Exec(StartFg(op, arg))
      IN IF fg.pc = "idle" THEN Commit(m)
         ELSE /\ m.fg.pc = "idle"
              /\ Commit([m EXCEPT !.fg = fg, !.ru = ru, !.wire = wire,
                                   !.hist = hist])

\* await navigator.serial.requestPort() is over
Fg_RequestDone ==
  /\ fg.pc = "request"
  /\ \E ok \in BOOLEAN, t \in Throwers :
       LET m == [St EXCEPT !.throwAt = t]
       IN Commit(IF ok
                 THEN Exec(Advance([m EXCEPT !.port = m.nPorts + 1,
                                             !.nPorts = @ + 1]))
                 ELSE Throw(m, "RequestError"))

\* await this.port.open(...) is over
Fg_OpenDone ==
  /\ fg.pc = "open"
  /\ \E ok \in BOOLEAN, t \in Throwers :
       LET m == [St EXCEPT !.throwAt = t]
       IN Commit(IF ok THEN Exec(Advance(m)) ELSE Throw(m, "OpenError"))

\* Date.now() advances past the deadline of the readUntil that is waiting
TickPast ==
  /\ fg.pc = "poll"
  /\ ru.elapsed <= ru.timeout
  /\ ru' = [ru EXCEPT !.elapsed = ru.timeout + 1]
  /\ calls' = <<>>
  /\ ret' = NoRet
  /\ UNCHANGED <<port, reader, writer, isConnected, responseBuffer,
                 readLoopPromise, isReading, loop, nPorts, fg, wire, other,
                 dev, hist>>

\* what a device of which nothing is known may send: the text the call in
\* flight waits for, a prompt, or something else
AnyChunks ==
  {<<"x">>} \cup (IF fg.pc = "poll" THEN {ru.marker} ELSE {Prompt})

Receive ==
  /\ Len(responseBuffer) < MaxPending
  /\ \E id \in PortIds, chunk \in AnyChunks : ReadLoop_Chunk(id, chunk, dev)

\* a read() resolved with a chunk after disconnect() stopped the loop
ReceiveStopped ==
  /\ ~isReading
  /\ \E id \in PortIds, chunk \in AnyChunks : ReadLoop_Chunk(id, chunk, dev)

ReadLoop_End == \E id \in PortIds : ReadLoop_Done(id)

ReadLoop_Fail == \E id \in PortIds, name \in ReadErrors : ReadLoop_Error(id, name)

Init == Constructed /\ EnvInit

Next ==
  \/ Connect_Call
  \/ Op_Call
  \/ Disconnect_Call
  \/ Fg_RequestDone
  \/ Fg_OpenDone
  \/ Fg_WriteDone
  \/ Fg_SleepDone
  \/ Fg_Poll
  \/ TickPast
  \/ Receive
  \/ ReceiveStopped
  \/ ReadLoop_End
  \/ ReadLoop_Fail

Spec == Init /\ [][Next]_vars

\* this step is the application calling one of the operations
OpCalled ==
  \/ fg.pc = "idle" /\ fg'.op \in Ops
  \/ ret'.op \in Ops /\ (fg.pc = "idle" \/ fg' = fg)

\* C3: once disconnect() has returned (and no connect() has succeeded since),
\* every call of an operation ends in the step that makes it, with the
\* not-connected error, also while a connect() is still in flight.
C3_NotConnectedAfterDisconnect ==
  [][(hist.sinceDisc /\ OpCalled)
       => /\ ret'.op \in Ops
          /\ ret'.out = NotConnected
          /\ fg' = fg]_vars

\* an operation was refused on a session that had been connected and was
\* then disconnected
C3_Witness ==
  /\ ret.op \in Ops
  /\ ret.out = NotConnected
  /\ hist.sinceDisc
  /\ hist.everConnected

Fields ==
  <<port, reader, writer, isConnected, isReading, responseBuffer,
    readLoopPromise>>

\* C4: disconnect() returns true from every state, never raises, and leaves
\* every field reset; a disconnect() right after a disconnect() changes no
\* field.
C4_DisconnectIdempotent ==
  [][ret'.op = "disconnect"
       => /\ ret'.out = "ok"
          /\ ret'.val = <<"true">>
          /\ port' = Null /\ reader' = Null /\ writer' = Null
          /\ ~isConnected' /\ ~isReading' /\ responseBuffer' = <<>>
          /\ (ret.op = "disconnect" => Fields' = Fields)]_vars

\* disconnect() returned true on a session that had been connected and was
\* already disconnected: nothing was left to clean up
C4_Witness ==
  /\ ret.op = "disconnect"
  /\ ret.out = "ok"
  /\ calls = <<>>
  /\ hist.everConnected
  /\ hist.sinceDisc

ThreeHandshakes ==
  <<CtrlC, "\r", "\n", CtrlC, "\r", "\n", CtrlC, "\r", "\n">>

\* C5: connect() never makes more than 3 handshake attempts, raises the
\* handshake-failure error only after the third, and when every attempt it
\* made timed out it made 3, sent 3 interrupt-and-newline probes and raised
\* the handshake-failure error.
C5_ThreeAttempts ==
  /\ fg.op = "connect" => hist.attempts <= 3
  /\ (ret.op = "connect" /\ ret.out = HandshakeFailure) => ret.attempts = 3
  /\ (ret.op = "connect" /\ ret.attempts > 0 /\ ret.timeouts = ret.attempts)
       => /\ ret.out = HandshakeFailure
          /\ ret.attempts = 3
          /\ ret.wire = ThreeHandshakes

\* connect() gave up after three attempts that all timed out
C5_Witness ==
  /\ ret.op = "connect"
  /\ ret.out = HandshakeFailure
  /\ ret.timeouts = 3

\* the failure of the stage connect() was in when this step resumed it
OriginalFailure ==
  CASE fg.pc = "request" -> {"RequestError"}
    [] fg.pc = "open" -> {"OpenError", "TypeError"}
    [] OTHER -> {HandshakeFailure}

\* C6: when connect() raises, the error is the failure of the stage it was
\* in, and the session has been disconnected: port, reader and writer are
\* null, isConnected is false and the accumulator is empty.
C6_FailedConnectDisconnects ==
  [][(ret'.op = "connect" /\ ret'.out # "ok")
       => /\ ret'.out \in OriginalFailure
          /\ port' = Null /\ reader' = Null /\ writer' = Null
          /\ ~isConnected' /\ responseBuffer' = <<>>
          /\ hist'.sinceDisc]_vars

\* connect() failed at the handshake with a port open and its reader and
\* writer taken: the disconnect had all of them to release
C6_Witness ==
  /\ ret.op = "connect"
  /\ ret.out = HandshakeFailure
  /\ Len(calls) = Cardinality(CleanupCalls)
  /\ port = Null

\* C12: the connected flag goes from false to true only in the step in which
\* connect() returns true, and that step ends a handshake attempt in which
\* the interrupt byte and then a bare line terminator were written and the
\* prompt marker '>' was extracted after them; it is the first prompt wait
\* of the call that succeeds, and connect() makes no attempt after it.
C12_ConnectedByHandshake ==
  [][/\ (~isConnected /\ isConnected') =>
          /\ ret'.op = "connect" /\ ret'.out = "ok" /\ ret'.val = <<"true">>
          /\ fg'.pc = "idle"
          /\ ret'.got = <<[marker |-> <<">">>, at |-> Len(ret'.wire)]>>
          /\ Len(ret'.wire) >= 3
          /\ SubSeq(ret'.wire, Len(ret'.wire) - 2, Len(ret'.wire))
               = <<"^C", "\r", "\n">>
     /\ (fg'.op = "connect") => fg'.got = <<>>
     /\ (ret'.op = "connect" /\ ret'.got # <<>>) =>
          ret'.out = "ok" /\ isConnected']_vars

\* connect() returned true at its second handshake attempt, after the first
\* had timed out
C12_Witness ==
  /\ ret.op = "connect"
  /\ ret.out = "ok"
  /\ isConnected
  /\ ret.attempts = 2
  /\ ret.timeouts = 1

\* C15 as stated: whatever the read fault, the ingest loop exits silently:
\* its task never ends in a failed state.
C15_LoopNeverFails == \A id \in PortIds : loop[id] # "failed"

\* C15 as amended: the ingest loop ends at end-of-stream, after the stop
\* flag was set, or on a read fault; it exits silently on a NetworkError and
\* on any fault after the stop flag was set, and every other read fault is
\* propagated: the loop's task ends failed, and in no other way.
C15_LoopEnds ==
  [][\A id \in PortIds :
       (loop[id] = "reading" /\ loop'[id] # "reading") =>
         IF ret'.op = "readLoop"
         THEN loop'[id] = (IF ret'.out = "NetworkError" \/ ~isReading
                           THEN "exited" ELSE "failed")
         ELSE loop'[id] = "exited"]_vars

\* a read fault other than a NetworkError after disconnect() had set the
\* stop flag: the loop exited silently
C15_Witness ==
  /\ ret.op = "readLoop"
  /\ ret.out = "BreakError"
  /\ ~isReading
  /\ loop[1] = "exited"

\* C16: whenever the session is connected, its ingest loop is running: it
\* has not exited on end-of-stream or on a read fault.
C16_ConnectedImpliesReading ==
  isConnected => \E id \in PortIds : reader = id /\ loop[id] = "reading"

\* C18: when connect() or an operation that got past its connected check
\* raises an error, the session has been disconnected: it is not connected
\* and its port is null.
C18_FailureDisconnects ==
  (/\ ret.op \in Ops \cup {"connect"}
   /\ ret.out \notin {"ok", NotConnected})
    => ~isConnected /\ port = Null

\* C7: every clean-up call of disconnect() happens with isConnected already
\* false and port, reader and writer already null.
C7_ResetBeforeCleanup ==
  \A j \in DOMAIN calls : ~calls[j].conn /\ calls[j].nulled

\* disconnect() of a connected session made all its clean-up calls
C7_Witness ==
  /\ ret.op = "disconnect"
  /\ hist.everConnected
  /\ Len(calls) = Cardinality(CleanupCalls)
  /\ calls[1].call = "reader.cancel"

(***************************************************************************)
(* getFileType on its own: an application that asks for the type of file   *)
(* names.                                                                  *)
(***************************************************************************)
FileStems ==
  {<<>>, <<"a">>, <<"a", ".", "b">>, <<"n", ".", "t", "x", "t">>, <<"A", " ", "b">>}

FileExts ==
  {FileTypes[j][1] : j \in DOMAIN FileTypes}
  \cup {<<"T", "X", "T">>, <<"S", "u", "b">>, <<"R", "F", "I", "D">>, <<"i", "R">>, <<"N", "F", "C">>, <<"J", "s">>, <<"F", "A", "P">>, <<"I", "B", "T", "N">>}
  \cup {<<>>, <<"z", "i", "p">>, <<"t", "x">>, <<"t", "x", "t", " ">>, <<"c", "o", "n", "s", "t", "r", "u", "c", "t", "o", "r">>, <<"_", "_", "p", "r", "o", "t", "o", "_", "_">>, <<"t", "o", "S", "t", "r", "i", "n", "g">>, <<"v", "a", "l", "u", "e", "O", "f">>, <<"c">>}

FileNames ==
  {stem \o <<".">> \o ext : stem \in FileStems, ext \in FileExts}
  \cup {<<"r", "e", "a", "d", "m", "e">>, <<"t", "x", "t">>, <<"a", " ", "b">>}

\* getFileType(filename) called by the application: it has no await and
\* ends in the step that calls it
GetFileType_Call ==
  \E filename \in FileNames :
    LET m == Exec(StartFg("getFileType", [NoArg EXCEPT !.name = filename]))
    IN Commit([m EXCEPT !.fg = fg, !.ru = ru, !.wire = wire, !.hist = hist])

SpecFileType == Init /\ [][GetFileType_Call]_vars

\* the extension of a file name: what follows its last dot
RECURSIVE Extension(_)
Extension(filename) ==
  IF \E j \in 1..Len(filename) : filename[j] = "."
  THEN Extension(Tail(filename))
  ELSE filename

\* the table of the claim
ClaimedTypes ==
  << <<<<"t", "x", "t">>, "text">>, <<<<"s", "u", "b">>, "subghz">>,
     <<<<"r", "f", "i", "d">>, "rfid">>, <<<<"i", "r">>, "infrared">>,
     <<<<"n", "f", "c">>, "nfc">>, <<<<"j", "s">>, "script">>,
     <<<<"f", "a", "p">>, "application">>, <<<<"i", "b", "t", "n">>, "ibutton">> >>

ClaimedType(filename) ==
  LET ext == ToLowerCase(Extension(filename))
  IN IF HasKey(ClaimedTypes, ext) THEN ValueOf(ClaimedTypes, ext) ELSE "unknown"

\* C10: getFileType returns the label of the table for the eight extensions,
\* whatever their case, and 'unknown' for every other file name.
C10_EveryOtherIsUnknown ==
  ret.op = "getFileType" => ret.val = <<ClaimedType(ret.arg.name)>>

(***************************************************************************)
(* The operations against a shell that follows the wire contract, over a   *)
(* link that loses nothing and delivers in time.                           *)
(***************************************************************************)
\* await this.writer.write(...) is over, the data written
Fg_WriteSent ==
  /\ fg.pc = "write"
  /\ Commit(Exec(Advance(St)))

\* the ingest loop reads what the shell has sent: the next byte, or all of it
Deliver ==
  /\ dev.out # <<>>
  /\ \E n \in {1, Len(dev.out)} :
       ReadLoop_Chunk(1, SubSeq(dev.out, 1, n),
                      [dev EXCEPT !.out = SubSeq(@, n + 1, Len(@))])

Shell(echoNl, listing) ==
  [NoDev EXCEPT !.kind = "shell", !.echoNl = echoNl, !.listing = listing]

(***************************************************************************)
(* listDirectory against a shell whose storage holds any of a few          *)
(* listings.                                                               *)
(***************************************************************************)
MaxLines == 2

ListLines ==
  {<<"[", "D", "]", " ", "s", "u", "b", " ", "0">>,
   <<"[", "F", "]", " ", "n", "o", "t", "e", ".", "t", "x", "t", " ", "4", "2">>,
   <<"g", "a", "r", "b", "a", "g", "e">>,
   <<"[", "F", "]", " ", "a", ".", "i", "r", "\t", "7">>,
   <<"[", "F", "]", " ", "b", " ", " ", "3">>}

Listings == UNION {[1..n -> ListLines] : n \in 0..MaxLines}

ListPaths == {<<"/">>, <<"/", "e">>}

ListDirectory_Call ==
  /\ fg.pc = "idle"
  /\ \E path \in ListPaths :
       Commit(Exec(StartFg("listDirectory", [NoArg EXCEPT !.path = path])))

NextListing == ListDirectory_Call \/ Fg_WriteSent \/ Fg_Poll \/ Deliver

InitListing ==
  /\ ConnectedSession
  /\ dev \in {Shell(FALSE, listing) : listing \in Listings}

SpecListing == InitListing /\ [][NextListing]_vars

\* the whitespace-delimited tokens of a piece of text
RECURSIVE Tokens(_)
Tokens(s) ==
  LET t == TrimStart(s)
      n == IF \E j \in 1..Len(t) : t[j] \in WhiteSpace
           THEN (CHOOSE j \in 1..Len(t) :
                   t[j] \in WhiteSpace /\ \A k \in 1..(j - 1) : t[k] \notin WhiteSpace) - 1
           ELSE Len(t)
  IN IF t = <<>> THEN <<>>
     ELSE <<SubSeq(t, 1, n)>> \o Tokens(SubSeq(t, n + 1, Len(t)))

\* the FileInfo the claim gives for a line that starts with a marker
ClaimedFileInfo(path, line) ==
  LET tokens == Tokens(SubSeq(line, 4, Len(line)))
      name == tokens[1]
      isDirectory == StartsWith(line, DirMarker)
  IN [name |-> name,
      isDirectory |-> isDirectory,
      path |-> CollapseSlashes(path \o <<"/">> \o name),
      size |-> IF isDirectory THEN Number(0) ELSE ParseInt(tokens[2]),
      type |-> IF isDirectory THEN "directory" ELSE ClaimedType(name)]

RECURSIVE ClaimedListing(_, _)
ClaimedListing(path, lines) ==
  IF lines = <<>> THEN <<>>
  ELSE (IF StartsWith(Head(lines), DirMarker) \/ StartsWith(Head(lines), FileMarker)
        THEN <<ClaimedFileInfo(path, Head(lines))>> ELSE <<>>)
       \o ClaimedListing(path, Tail(lines))

\* C9: listDirectory returns, in line order, one FileInfo for every line of
\* the listing that starts with [D] or [F] and nothing for the other lines;
\* name is the first token after the marker, size the second token as an
\* integer (0 for a directory), path the parent path, '/' and the name with
\* repeated separators collapsed.
C9_ParsesEveryLine ==
  (ret.op = "listDirectory" /\ ret.out = "ok")
    => ret.val = ClaimedListing(ret.arg.path, dev.listing)

(***************************************************************************)
(* writeFile and readFile against a shell that stores one file.            *)
(***************************************************************************)
Contents ==
  {<<"a">>, <<"a", "\n", "b">>, <<"a", "\r", "\n", "b">>, <<"a", ">", "b">>}

FilePaths == {<<"/", "ext", "/", "f">>, <<"f">>}

WriteFile_Call ==
  /\ fg.pc = "idle"
  /\ \E path \in FilePaths, content \in Contents :
       Commit(Exec(StartFg("writeFile", [NoArg EXCEPT !.path = path,
                                                      !.content = content])))

ReadFile_Call ==
  /\ fg.pc = "idle"
  /\ \E path \in FilePaths :
       Commit(Exec(StartFg("readFile", [NoArg EXCEPT !.path = path])))

NextRoundTrip ==
  \/ WriteFile_Call
  \/ ReadFile_Call
  \/ Fg_WriteSent
  \/ Fg_SleepDone
  \/ Fg_Poll
  \/ Deliver

InitRoundTrip ==
  /\ ConnectedSession
  /\ dev \in {Shell(echoNl, <<>>) : echoNl \in BOOLEAN}

SpecRoundTrip == InitRoundTrip /\ [][NextRoundTrip]_vars

\* C8: a readFile(path) that returns after a writeFile(path, content) that
\* returned true, against a shell that echoes the command text alone and
\* answers with the size line, the stored content and the prompt, returns
\* content.
C8_RoundTrip ==
  (/\ ret.op = "readFile"
   /\ ret.out = "ok"
   /\ ~dev.echoNl
   /\ hist.written # <<>>
   /\ hist.written[1] = ret.arg.path)
    => ret.val = hist.written[2]

(***************************************************************************)
(* The operations of a connected session, writeCommand among them, over a  *)
(* port whose writes may fail and a device of which nothing is known: it   *)
(* answers with any text, at any time, or not at all.                      *)
(***************************************************************************)
Command_Call ==
  /\ fg.pc = "idle"
  /\ \E op \in Ops \cup {"writeCommand"} :
       \E arg \in OpArgs(op)
                  \cup (IF op = "writeFile"
                        THEN {[NoArg EXCEPT !.path = <<"a">>,
                                            !.content = <<"c">>]}
                        ELSE {}) :
         Commit(Exec(StartFg(op, arg)))

\* a chunk arrives: a text, then the marker the call in flight waits for (or
\* something nobody waits for)
Answer ==
  /\ Len(responseBuffer) < MaxPending
  /\ \E text \in { <<>>, <<"o", "k">>,
                    <<"E", "r", "r", "o", "r">>, <<"e", "r", "r", "O", "R">>,
                    <<"n", "o", "t", " ", "f", "o", "u", "n", "d">>,
                    <<"r", "u", "n", "n", "i", "n", "g">> } :
       ReadLoop_Chunk(1, text \o (IF fg.pc = "poll" THEN ru.marker
                                  ELSE <<"x">>), dev)

InitOps == ConnectedSession /\ dev = NoDev

SpecOps ==
  /\ InitOps
  /\ [][\/ Command_Call
        \/ Fg_WriteDone
        \/ Fg_SleepDone
        \/ Fg_Poll
        \/ TickPast
        \/ Answer]_vars

\* C11: an operation called by the application that writes to the port has
\* emptied the accumulator before its first write: when the call reaches its
\* first write, the accumulator is empty.
C11_ClearedBeforeWrite ==
  [][(fg.pc = "idle" /\ fg'.pc = "write") => responseBuffer' = <<>>]_vars

\* the call that returned wrote the command last, and after that extracted
\* its echo and then the marker as its last two extractions
AnsweredLast(r, cmd, marker) ==
  LET n == Len(r.got)
      w == Len(r.wire)
      c == Len(cmd) + 2
  IN /\ w >= c
     /\ SubSeq(r.wire, w - c + 1, w) = cmd \o <<"\r", "\n">>
     /\ n >= 2
     /\ r.got[n - 1] = [marker |-> cmd, at |-> w]
     /\ r.got[n] = [marker |-> marker, at |-> w]

\* C13: writeFile returns true only after it has written the stat query for
\* the path and extracted its echo and its response, and that response holds
\* neither "Error" nor "not found"; when the response holds one of them,
\* writeFile raises 'File verification failed', and it raises that error in
\* no other case.
C13_VerifiedBeforeSuccess ==
  ret.op = "writeFile" =>
    LET verified == AnsweredLast(ret, <<"storage stat ">> \o ret.arg.path,
                                 <<">", ":">>)
        keyword == \/ Contains(ret.from, <<"E", "r", "r", "o", "r">>)
                   \/ Contains(ret.from, <<"n", "o", "t", " ", "f", "o", "u",
                                           "n", "d">>)
    IN /\ ret.out = "ok" => verified /\ ~keyword
       /\ ret.out = "File verification failed" <=> verified /\ keyword

\* writeFile returned true on a stat response that is not empty
C13_Witness ==
  /\ ret.op = "writeFile"
  /\ ret.out = "ok"
  /\ ret.val = <<"true">>
  /\ ret.from = <<"o", "k">>

LoaderErrors == {"Loader open failed", "Loader close failed", "Signal failed"}

\* C14: a loader operation that has extracted its response up to the prompt
\* raises a loader error when the response holds "error" in any letter
\* case, and returns normally when it does not.
C14_LoadersRaiseOnError ==
  (/\ ret.op \in {"loaderList", "loaderOpen", "loaderClose", "loaderInfo",
                  "loaderSignal"}
   /\ Len(ret.got) = 2
   /\ ret.got[2].marker = <<">">>)
    => IF Contains(ToLowerCase(ret.from), <<"e", "r", "r", "o", "r">>)
       THEN ret.out \in LoaderErrors
       ELSE ret.out = "ok"

(***************************************************************************)
(* Two operations in flight: the application calls a second operation      *)
(* before the first has returned.  Nothing in the methods tells a second   *)
(* call from a first: each runs as it would alone, on the same fields.     *)
(***************************************************************************)
\* the state as the other call sees it: the two calls change places
Swap(m) ==
  [m EXCEPT !.fg = m.other.fg, !.ru = m.other.ru, !.wire = m.other.wire,
            !.other = [fg |-> m.fg, ru |-> m.ru, wire |-> m.wire]]

\* loaderInfo() called while a call is in flight
Overlap_Call ==
  /\ fg.pc # "idle"
  /\ other.fg.pc = "idle"
  /\ Commit(Swap(Exec([Swap(St) EXCEPT
                         !.fg = [IdleFg EXCEPT !.op = "loaderInfo", !.ip = 1,
                                               !.pc = "run"]])))

\* the second call resumes: its write is over, or its 1 ms timer fired and
\* the marker is there
Other_Step ==
  LET m == Swap(St)
  IN \/ /\ m.fg.pc = "write"
        /\ Commit(Swap(Exec(Advance(m))))
     \/ /\ m.fg.pc = "poll"
        /\ Found(m)
        /\ Commit(Swap(Exec(Advance(FindAndSplit(m)))))

InitOverlap == ConnectedSession /\ dev = Shell(FALSE, <<>>)

SpecOverlap ==
  /\ InitOverlap
  /\ [][\/ ListDirectory_Call
        \/ Overlap_Call
        \/ Fg_WriteSent
        \/ Fg_Poll
        \/ Other_Step
        \/ Deliver]_vars

\* C17: when a second operation is started before the first has returned,
\* the two never both wait in a readUntil, and neither extracts text of the
\* other's exchange with the shell (the echo of the other's command).
C17_OneExtractionAtATime ==
  /\ ~(fg.pc = "poll" /\ other.fg.pc = "poll")
  /\ ~Contains(other.fg.saved, <<"storage list ">>)
  /\ ~Contains(fg.saved, <<"loader info">>)
  /\ (ret.op = "loaderInfo" => ~Contains(ret.from, <<"storage list ">>))
  /\ (ret.op = "listDirectory" => ~Contains(ret.from, <<"loader info">>))

(***************************************************************************)
(* writeCommand against the shell, over a link that loses nothing but may  *)
(* deliver late.                                                           *)
(***************************************************************************)
WriteCommand_Call ==
  /\ fg.pc = "idle"
  /\ dev.out = <<>>
  /\ \E arg \in OpArgs("writeCommand") :
       Commit(Exec(StartFg("writeCommand", arg)))

InitCommand ==
  /\ ConnectedSession
  /\ dev \in {[Shell(echoNl, <<>>) EXCEPT !.bare = bare] :
                echoNl \in BOOLEAN, bare \in BOOLEAN}

SpecCommand ==
  /\ InitCommand
  /\ [][\/ WriteCommand_Call
        \/ Fg_WriteSent
        \/ Fg_Poll
        \/ TickPast
        \/ Deliver]_vars

C20_FailureCarriesCommand ==
  (ret.op = "writeCommand" /\ ret.arg.name = <<"help">> /\ ret.out # "ok")
    => ret.out = "Command failed: help"

\* C21: a readFile of the file the shell holds returns the payload without
\* the size line the shell prints before it, and with the first line of the
\* payload at its start (for a payload that holds no '>').
C21_SkipsSizeLine ==
  (/\ ret.op = "readFile"
   /\ ret.out = "ok"
   /\ dev.exists
   /\ dev.name = ret.arg.path
   /\ ~Contains(dev.file, <<">">>))
    => /\ ~Contains(ret.val, <<"Size: n">>)
       /\ ret.val # <<>>
       /\ ret.val[1] = dev.file[1]

\* C22: what openBadUSB writes, in order: 'loader info' first; after the
\* info response was extracted, 'loader close' if and only if the response
\* holds 'running'; 'loader open "Bad USB"' only after the info response
\* was extracted without 'running', or after the response of the close was
\* extracted and held no error; it returns true only with the open written
\* last and answered.
C22_BadUSBOrder ==
  [][LET info == <<"loader info", "\r", "\n">>
         close == <<"loader close", "\r", "\n">>
         open == <<"loader open ", "\"", "Bad USB", "\"", "\r", "\n">>
         running(t) == Contains(t, <<"r", "u", "n", "n", "i", "n", "g">>)
         error(t) == Contains(ToLowerCase(t), <<"e", "r", "r", "o", "r">>)
     IN /\ (fg'.op = "openBadUSB" /\ wire' # wire) =>
             \/ wire = <<>> /\ wire' = info /\ fg'.got = <<>>
             \/ /\ wire = info /\ wire' = info \o close
                /\ Len(fg'.got) = 2 /\ running(fg'.saved)
             \/ /\ wire = info /\ wire' = info \o open
                /\ Len(fg'.got) = 2 /\ ~running(fg'.saved)
             \/ /\ wire = info \o close /\ wire' = info \o close \o open
                /\ Len(fg'.got) = 4 /\ ~error(fg'.saved)
        /\ (ret'.op = "openBadUSB" /\ ret'.out = "ok") =>
             \/ ret'.wire = info \o open /\ Len(ret'.got) = 4
             \/ ret'.wire = info \o close \o open /\ Len(ret'.got) = 6]_vars

\* openBadUSB returned true after it had closed the running application
C22_Witness ==
  /\ ret.op = "openBadUSB"
  /\ ret.out = "ok"
  /\ Len(ret.got) = 6

\* the first k of the texts, one after the other
RECURSIVE Joined(_, _)
Joined(texts, k) ==
  IF k = 0 THEN <<>> ELSE Joined(texts, k - 1) \o texts[k]

\* C23: writeFile writes, in this order and nothing else: the mkdir command
\* for the parent directory if the path has one, the storage-write command,
\* the content, a line terminator, the interrupt byte, the stat command.
\* The mkdir command has been answered (echo and '>:' extracted) before the
\* storage-write command is written, the banner is the last thing extracted
\* when the content is written, and '>:' the last thing extracted when the
\* stat command is written.
C23_WriteOrder ==
  [][(fg'.op = "writeFile" /\ wire' # wire) =>
       LET path == fg'.arg.path
           crlf == <<"\r", "\n">>
           slashes == {j \in 1..Len(path) : path[j] = "/"}
           parent == IF slashes = {} THEN <<>>
                     ELSE SubSeq(path, 1,
                                 (CHOOSE j \in slashes :
                                    \A i \in slashes : i <= j) - 1)
           mkdir == IF parent = <<>> THEN <<>>
                    ELSE << <<"storage mkdir ">> \o parent \o crlf >>
           texts == mkdir \o << <<"storage write ">> \o path \o crlf,
                                fg'.arg.content, crlf, <<"^C">>,
                                <<"storage stat ">> \o path \o crlf >>
           n == Len(mkdir)
           got == fg'.got
       IN \E k \in 1..Len(texts) :
            /\ wire = Joined(texts, k - 1)
            /\ wire' = Joined(texts, k)
            /\ Len(got) = (IF k <= n THEN 0
                           ELSE IF k = n + 1 THEN 2 * n
                           ELSE IF k <= n + 4 THEN 2 * n + 1
                           ELSE 2 * n + 2)
            /\ (n = 1 /\ k > 1) =>
                 /\ got[1].marker = <<"storage mkdir ">> \o parent
                 /\ got[2].marker = <<">", ":">>
            /\ (k = n + 2) =>
                 got[Len(got)].marker
                   = <<"Just write your text data. New line by Ctrl+Enter, exit by Ctrl+C.">>
            /\ (k = n + 5) => got[Len(got)].marker = <<">", ":">>]_vars

\* writeFile returned true for a path with a parent directory
C23_Witness ==
  /\ ret.op = "writeFile"
  /\ ret.out = "ok"
  /\ ret.arg.path = <<"/", "ext", "/", "a">>
  /\ Len(ret.got) = 6

\* C24: every connect() starts an ingest loop that pulls chunks from the
\* channel: the readLoop task a connect() creates is suspended in read()
\* when connect() goes on, also on a session that was disconnected before
\* or whose earlier connect() failed.
C24_ConnectStartsLoop ==
  [][\A id \in PortIds :
       (loop[id] = "none" /\ loop'[id] # "none") => loop'[id] = "reading"]_vars

\* C25: the clean-up of disconnect() attempts every step that applies,
\* whatever an earlier step raises: a reader that was set is cancelled and
\* released, a writer that was set is closed and released, and a port that
\* was set is closed.
C25_CleanupAttemptsAll ==
  [][(ret'.op = "disconnect") =>
       LET called(c) == \E j \in 1..Len(calls') : calls'[j].call = c
       IN /\ reader # Null =>
               called("reader.cancel") /\ called("reader.releaseLock")
          /\ writer # Null =>
               called("writer.close") /\ called("writer.releaseLock")
          /\ port # Null => called("port.close")]_vars

\* C26: in every state between two steps, whatever connect(), disconnect()
\* and the operations in flight have done so far: a session whose connected
\* flag is true has its port, reader and writer set and its ingest loop not
\* told to stop.
C26_NeverHalfTornDown ==
  isConnected =>
    /\ port # Null
    /\ reader # Null
    /\ writer # Null
    /\ isReading

\* a connected session with an operation suspended in readUntil: the state
\* a disconnect() finds when it runs under an operation in flight
C26_Witness ==
  /\ isConnected
  /\ fg.op \in Ops
  /\ fg.pc = "poll"
  /\ hist.everConnected

\* C27: a readUntil that is suspended when disconnect() runs is not
\* interrupted and never succeeds afterwards: the poll that ends it comes
\* after its own deadline, extracts nothing and raises the read-timeout
\* error (which an operation passes on to its caller and the handshake of
\* connect() counts as a failed attempt), whatever the channel delivers
\* after the disconnect.
C27_SuspendedReadTimesOut ==
  [][(fg.pc = "poll" /\ ~isReading /\ fg' # fg) =>
       /\ fg.got = (IF fg'.pc = "idle" THEN ret'.got ELSE fg'.got)
       /\ responseBuffer' = responseBuffer
       /\ ru.elapsed > ru.timeout
       /\ fg.op \in Ops => (ret'.op = fg.op /\ ret'.out = "Read timeout")
       /\ fg.op = "connect" =>
            \/ fg'.op = "connect" /\ hist'.timeouts = hist.timeouts + 1
            \/ ret'.op = "connect" /\ ret'.out \notin {"ok", "none"}]_vars

\* an operation ended with the read-timeout error after a disconnect() that
\* ran while it was waiting, and after the loop had thrown away a chunk that
\* arrived later
C27_Witness ==
  /\ ret.op \in Ops
  /\ ret.out = "Read timeout"
  /\ hist.sinceDisc
  /\ hist.everConnected
  /\ ~isReading
  /\ \E id \in PortIds : loop[id] = "exited"

\* C28: once disconnect() has reset the session the ingest loop appends
\* nothing more: while the stop flag is set the accumulator is empty, a
\* chunk whose read completes in that time being thrown away.
C28_NothingAppendedAfterStop ==
  ~isReading => responseBuffer = <<>>

\* a session that was connected and then disconnected, whose loop has ended
\* on the read that completed after the disconnect
C28_Witness ==
  /\ ~isReading
  /\ hist.everConnected
  /\ hist.sinceDisc
  /\ ret.op = "none"
  /\ responseBuffer = <<>>
  /\ \E id \in PortIds : loop[id] = "exited"

\* C29: extraction and ingest neither lose nor reorder received text,
\* however the appends of the ingest loop and the polls of a readUntil
\* interleave.  Every step leaves the accumulator as it is, or appends one
\* received chunk at its end, or is a successful readUntil that cuts the
\* accumulator into the text skipped, the delimiter and the new accumulator,
\* and returns the skipped text less its outer whitespace.
C29_NoLossNoReorder ==
  [][\/ /\ responseBuffer' = responseBuffer
        /\ ~(ret'.op = "readUntil" /\ ret'.out = "ok")
     \/ /\ \E c \in Chars : responseBuffer' = responseBuffer \o <<c>>
        /\ fg' = fg
        /\ ret'.op = "none"
     \/ /\ ret'.op = "readUntil"
        /\ ret'.out = "ok"
        /\ \E i \in 0..Len(responseBuffer) :
             /\ responseBuffer = SubSeq(responseBuffer, 1, i)
                                   \o ret'.arg.marker \o responseBuffer'
             /\ IsTrimOf(ret'.val, SubSeq(responseBuffer, 1, i))]_vars

\* a readUntil that had to wait returned text that arrived while it was
\* waiting, and left behind text that arrived after its delimiter
C29_Witness ==
  /\ ret.op = "readUntil"
  /\ ret.out = "ok"
  /\ ret.val # <<>>
  /\ responseBuffer # <<>>
  /\ ret.elapsed > 0
  /\ Len(ret.val) + Len(ret.arg.marker) + Len(responseBuffer) = MaxAccum

\* C30: every poll of readUntil looks at the accumulator before it looks at
\* the deadline.  A readUntil ends on a poll that finds its delimiter in the
\* accumulator, with success, however much time has passed (none allowed
\* and none passed included), or on a poll that does not find it, with the
\* read-timeout error and only when more time than the timeout has passed.
C30_BufferBeforeDeadline ==
  [][(ret'.op = "readUntil") =>
       IF Contains(responseBuffer, ret'.arg.marker)
       THEN ret'.out = "ok"
       ELSE /\ ret'.out = "Read timeout"
            /\ ret'.elapsed > ret'.arg.timeout
            /\ fg.pc = "poll"]_vars

\* a readUntil succeeded on a poll that came after its deadline
C30_Witness ==
  /\ ret.op = "readUntil"
  /\ ret.out = "ok"
  /\ ret.elapsed > ret.arg.timeout

\* C31: whenever writeFile ends, by success or by any failure, after it has
\* written the storage-write command (the write of the command itself was
\* not the one that failed), it has written the interrupt byte after that
\* command: the shell is not left in raw-capture mode.
C31_InterruptAfterWrite ==
  (ret.op = "writeFile") =>
    \A j \in 1..Len(ret.wire) :
      (/\ ret.wire[j] = "storage write "
       /\ \/ ret.out # "WriteError"
          \/ Len(ret.wire) > j + Len(ret.arg.path) + 2)
        => \E k \in (j + 1)..Len(ret.wire) : ret.wire[k] = "^C"

(***************************************************************************)
(* The life cycle of the session under a scheduler that runs what is       *)
(* ready: the clock passes every deadline, a write that was started        *)
(* settles, a timer that was set fires, and the 1 ms timer of a waiting    *)
(* readUntil fires (in their state forms, as in SpecReadUntil: each of     *)
(* these steps is enabled by the position of the call alone).  Nothing is  *)
(* assumed of the device, nor of the user who is asked for a port.         *)
(***************************************************************************)
SpecLive ==
  /\ Init
  /\ [][Next]_vars
  /\ WF_vars(TickPast)
  /\ []<>(fg.pc # "write")
  /\ []<>(fg.pc # "sleep")
  /\ []<>(~PollEnabled)

====
